---------------------------- MODULE Spec2Model ----------------------------
(***************************************************************************)
(* A model of hosts-filter: HostsManager (src/src/model.py) and the        *)
(* handlers of HostsFilterApp (src/src/ui.py).                             *)
(*                                                                         *)
(* Three specifications share the module:                                  *)
(*   SpecMerge  the manager's merge_entries / preview_stats, applied to    *)
(*              every bounded manager state and selection;                 *)
(*   SpecApp    the application: the UI thread's handlers interleaved with *)
(*              the fetch worker thread, and the target hosts file;        *)
(*   SpecParse  HostEntry.to_line and parse_content on strings of          *)
(*              characters.                                                *)
(* In SpecMerge and SpecApp a line of text is the record of what is on it  *)
(* (tokens are atoms); SpecParse works on the characters themselves.       *)
(***************************************************************************)
EXTENDS Integers, Sequences, FiniteSets, TLC

(***************************************************************************)
(* Bounds of the model.                                                    *)
(***************************************************************************)
\* the whitelist, the system entries and the fetched sources hold at most
\* this many domain tokens in all
MaxTokens == 2
\* a selection handed to merge_entries / preview_stats has at most this many labels
MaxSel == 2

\* SOURCES (model.py:10-17): the labels in their dictionary order; the model
\* keeps the first two of the six.
SOURCES == <<"Malware (PiHole)", "Malware (URLHaus)">>

\* the domain tokens of the model
Domains == {"a.com", "b.com"}

\* Python's None
None == "None"

VARIABLES
    \* HostsManager (model.py:37-43, 152)
    system_entries,            \* List[HostEntry]
    remote_entries,            \* Dict[str, List[HostEntry]], in insertion order
    whitelist,                 \* Set[str]
    has_last_whitelisted_count,\* whether the attribute exists (ui.py:240 hasattr)
    last_whitelisted_count,    \* the attribute merge_entries sets
    \* the most recent call of the manager's API and what it returned
    last_call,
    \* the files
    hosts_file,                \* the lines of system_hosts_path (/etc/hosts)
    backups,                   \* the contents of the .bak files, oldest first
    config_file,               \* "selected_sources" of config.json
    \* HostsFilterApp (ui.py)
    checked,                   \* the labels whose Checkbox value is True
    ui,                        \* the UI thread: its place and its locals
    worker,                    \* the fetch worker thread: its place and its locals
    \* history: the domains an apply has written into the generated block
    from_blocklist,
    \* a round trip through to_line and parse_content (SpecParse)
    trip                       \* the texts and entry lists produced so far

manager_vars == <<system_entries, remote_entries, whitelist,
                  has_last_whitelisted_count, last_whitelisted_count>>
app_vars == <<hosts_file, backups, config_file, checked, ui, worker, from_blocklist>>
app_vars_but_worker == <<hosts_file, backups, config_file, checked, ui, from_blocklist>>
vars == <<system_entries, remote_entries, whitelist,
          has_last_whitelisted_count, last_whitelisted_count, last_call,
          hosts_file, backups, config_file, checked, ui, worker,
          from_blocklist, trip>>

(***************************************************************************)
(* Helpers on sequences and Python dictionaries.                           *)
(***************************************************************************)
Range(s) == {s[i] : i \in DOMAIN s}

RECURSIVE SumSeq(_)
SumSeq(s) == IF s = <<>> THEN 0 ELSE Head(s) + SumSeq(Tail(s))

\* a dict is the sequence of its items, in insertion order, keys unique
DictKeys(d) == {d[i].key : i \in DOMAIN d}
DictHas(d, k) == \E i \in DOMAIN d : d[i].key = k
DictGet(d, k) == d[CHOOSE i \in DOMAIN d : d[i].key = k].value
\* d[k] = v: an existing key keeps its place, a new key is appended
DictSet(d, k, v) ==
    IF DictHas(d, k)
    THEN [i \in DOMAIN d |-> IF d[i].key = k THEN [key |-> k, value |-> v] ELSE d[i]]
    ELSE Append(d, [key |-> k, value |-> v])

(***************************************************************************)
(* HostEntry and the lines of a generated file.                            *)
(***************************************************************************)
HostEntry(ip, domains, comment, source) ==
    [ip |-> ip, domains |-> domains, comment |-> comment, source |-> source,
     enabled |-> TRUE]

TextLine(s) == [kind |-> "text", text |-> s]
SourceLine(label) == [kind |-> "source", label |-> label]

\* HostEntry.to_line: the line carries the address, the domains and the comment
\* (the source label is not written); a disabled entry is a comment line
to_line(e) ==
    IF ~e.enabled
    THEN [kind |-> "comment", ip |-> e.ip, domains |-> e.domains]
    ELSE [kind |-> "entry", ip |-> e.ip, domains |-> e.domains,
          comment |-> IF e.comment = None \/ e.comment = "" THEN None ELSE e.comment]

(***************************************************************************)
(* merge_entries (model.py:138-179).                                       *)
(***************************************************************************)
\* mutant of SeedSeenDomains: the seen set is not seeded from the system entries
SeedSeenNothing(entries) == {}

\* model.py:153-156: the seen set starts as every domain of the system entries
SeedSeenDomains(entries) == UNION {Range(entries[i].domains) : i \in DOMAIN entries}

\* mutant of ResetWhitelistedCount: the counter is not reset by a call
KeepWhitelistedCount(prev) == prev

\* model.py:152: the counter starts at 0 on every call (prev: the attribute before)
ResetWhitelistedCount(prev) == 0

\* mutant of FilterDomains: the whitelist test of model.py:168 is left out
RECURSIVE FilterDomainsNoWhitelist(_, _, _)
FilterDomainsNoWhitelist(domains, seen, wl) ==
    IF domains = <<>> THEN [new_domains |-> <<>>, skipped |-> 0]
    ELSE LET d == Head(domains)
             rest == FilterDomainsNoWhitelist(Tail(domains), seen, wl)
         IN  IF d \in seen THEN rest
             ELSE [rest EXCEPT !.new_domains = <<d>> \o @]

\* model.py:164-171: the domains of one entry against seen and the whitelist;
\* seen is NOT updated inside this loop.  Returns the kept domains and the
\* number of whitelist skips.
RECURSIVE FilterDomains(_, _, _)
FilterDomains(domains, seen, wl) ==
    IF domains = <<>> THEN [new_domains |-> <<>>, skipped |-> 0]
    ELSE LET d == Head(domains)
             rest == FilterDomains(Tail(domains), seen, wl)
         IN  IF d \in seen THEN rest
             ELSE IF d \in wl
                  THEN [rest EXCEPT !.skipped = @ + 1]
                  ELSE [rest EXCEPT !.new_domains = <<d>> \o @]

\* model.py:176: seen after an entry whose kept domains are new_domains
UpdateSeen(seen, new_domains) == seen \cup Range(new_domains)

\* model.py:163-176: the entries of one source, in order.  acc is
\* [lines, seen, count]
RECURSIVE MergeSourceEntries(_, _, _, _)
MergeSourceEntries(entries, source, wl, acc) ==
    IF entries = <<>> THEN acc
    ELSE LET f == FilterDomains(Head(entries).domains, acc.seen, wl)
             block_entry == HostEntry("0.0.0.0", f.new_domains, None, source)
             acc2 == [lines |-> IF f.new_domains # <<>>
                                THEN Append(acc.lines, to_line(block_entry))
                                ELSE acc.lines,
                      seen  |-> IF f.new_domains # <<>>
                                THEN UpdateSeen(acc.seen, f.new_domains)
                                ELSE acc.seen,
                      count |-> acc.count + f.skipped]
         IN  MergeSourceEntries(Tail(entries), source, wl, acc2)

\* model.py:159-177: one turn of the loop over selected_sources
MergeOneSource(source, remote, wl, acc) ==
    IF ~DictHas(remote, source) THEN acc
    ELSE LET a == MergeSourceEntries(DictGet(remote, source), source, wl,
                      [acc EXCEPT !.lines = Append(@, SourceLine(source))])
         IN  [a EXCEPT !.lines = Append(@, TextLine(""))]

\* mutant of MergeSelected: the loop runs over remote_entries in its stored
\* order and takes the labels that are selected
MergeInStoredOrder(selected_sources, remote, wl, acc) ==
    LET keys == [i \in DOMAIN remote |-> remote[i].key]
        RECURSIVE Go(_, _)
        Go(ks, a) ==
            IF ks = <<>> THEN a
            ELSE Go(Tail(ks),
                    IF Head(ks) \in Range(selected_sources)
                    THEN MergeOneSource(Head(ks), remote, wl, a)
                    ELSE a)
    IN  Go(keys, acc)

\* model.py:158: the loop takes the labels in the order of selected_sources
RECURSIVE MergeSelected(_, _, _, _)
MergeSelected(selected_sources, remote, wl, acc) ==
    IF selected_sources = <<>> THEN acc
    ELSE MergeSelected(Tail(selected_sources), remote, wl,
                       MergeOneSource(Head(selected_sources), remote, wl, acc))

\* model.py:140-156: the lines and the state before the loop
MergePrologue(sys, prev_count) ==
    [lines |-> <<TextLine("### SYSTEM ENTRIES (PRESERVED) ###")>>
               \o [i \in DOMAIN sys |-> to_line(sys[i])]
               \o <<TextLine(""),
                    TextLine("### BLOCKLIST ENTRIES (GENERATED) ###"),
                    TextLine("# Generated by HostsFilter")>>,
     seen  |-> SeedSeenDomains(sys),
     count |-> ResetWhitelistedCount(prev_count)]

\* merge_entries: the returned lines and the value left in last_whitelisted_count
merge_entries(sys, remote, wl, prev_count, selected_sources) ==
    MergeSelected(selected_sources, remote, wl, MergePrologue(sys, prev_count))

(***************************************************************************)
(* preview_stats (model.py:181-209).                                       *)
(***************************************************************************)
\* model.py:196-203: seen is updated at once, domain by domain.  acc is
\* [seen, total_blocked, whitelisted_count]
RECURSIVE PreviewDomains(_, _, _)
PreviewDomains(domains, wl, acc) ==
    IF domains = <<>> THEN acc
    ELSE LET d == Head(domains)
         IN  PreviewDomains(Tail(domains), wl,
                 IF d \in acc.seen THEN acc
                 ELSE IF d \in wl
                      THEN [acc EXCEPT !.whitelisted_count = @ + 1]
                      ELSE [acc EXCEPT !.total_blocked = @ + 1,
                                       !.seen = @ \cup {d}])

RECURSIVE PreviewEntries(_, _, _)
PreviewEntries(entries, wl, acc) ==
    IF entries = <<>> THEN acc
    ELSE PreviewEntries(Tail(entries), wl, PreviewDomains(Head(entries).domains, wl, acc))

RECURSIVE PreviewSelected(_, _, _, _)
PreviewSelected(selected_sources, remote, wl, acc) ==
    IF selected_sources = <<>> THEN acc
    ELSE PreviewSelected(Tail(selected_sources), remote, wl,
             IF DictHas(remote, Head(selected_sources))
             THEN PreviewEntries(DictGet(remote, Head(selected_sources)), wl, acc)
             ELSE acc)

preview_stats(sys, remote, wl, selected_sources) ==
    LET r == PreviewSelected(selected_sources, remote, wl,
                 [seen |-> SeedSeenDomains(sys), total_blocked |-> 0,
                  whitelisted_count |-> 0])
    IN  [system_lines |-> Len(sys),
         new_blocked_domains |-> r.total_blocked,
         whitelisted_skipped |-> r.whitelisted_count]

(***************************************************************************)
(* The bounded inputs of SpecMerge.                                        *)
(***************************************************************************)
DomainSeqs(n) == UNION {[1..k -> Domains] : k \in 1..n}

\* the lists of entries of one source holding at most t domain tokens in all
RECURSIVE EntryLists(_, _, _)
EntryLists(t, ip, source) ==
    {<<>>} \cup
    UNION {{<<HostEntry(ip, ds, None, source)>> \o rest :
                rest \in EntryLists(t - Len(ds), ip, source)} :
           ds \in DomainSeqs(t)}

Labels == Range(SOURCES)

RECURSIVE EntriesTokens(_)
\* the number of domain tokens in a list of entries
EntriesTokens(entries) ==
    IF entries = <<>> THEN 0
    ELSE Len(Head(entries).domains) + EntriesTokens(Tail(entries))

RECURSIVE DictTokens(_)
DictTokens(d) ==
    IF d = <<>> THEN 0 ELSE EntriesTokens(Head(d).value) + DictTokens(Tail(d))

\* every dict from some of the labels to a list of entries, in every
\* insertion order, holding at most t domain tokens in all
RECURSIVE RemoteDicts(_, _)
RemoteDicts(labels, t) ==
    {<<>>} \cup
    UNION {UNION {{Append(d, [key |-> l, value |-> es]) :
                      es \in EntryLists(t - DictTokens(d), "0.0.0.0", l)} :
                  d \in RemoteDicts(labels \ {l}, t)} :
           l \in labels}

Selections == UNION {[1..k -> Labels] : k \in 0..MaxSel}

(***************************************************************************)
(* SpecMerge: a manager in any bounded state, and calls of its API.        *)
(***************************************************************************)
\* the threads at rest and no file written: the application plays no part
NoAcc == [lines |-> <<>>, seen |-> {}, count |-> 0]
UiStart ==
    [pc |-> "idle", handler |-> "none", selected |-> <<>>, i |-> 0, acc |-> NoAcc,
     new_content |-> <<>>, current_content |-> <<>>, file_before |-> <<>>,
     result |-> "none", applies |-> 0]
WorkerIdle == [pc |-> "idle", i |-> 0]
AppNotStarted ==
    /\ hosts_file = <<>>
    /\ backups = <<>>
    /\ config_file = <<>>
    /\ checked = {}
    /\ ui = UiStart
    /\ worker = WorkerIdle
    /\ from_blocklist = {}

InitMerge ==
    /\ whitelist \in {w \in SUBSET Domains : Cardinality(w) <= MaxTokens}
    /\ remote_entries \in RemoteDicts(Labels, MaxTokens - Cardinality(whitelist))
    /\ system_entries \in EntryLists(MaxTokens - Cardinality(whitelist)
                                         - DictTokens(remote_entries),
                                     "127.0.0.1", "System")
    /\ has_last_whitelisted_count = FALSE
    /\ last_whitelisted_count = 0
    /\ last_call = [op |-> "none"]
    /\ AppNotStarted
    /\ trip = <<>>

\* mgr.merge_entries(selected_sources)
MergeEntries(selected_sources) ==
    LET r == merge_entries(system_entries, remote_entries, whitelist,
                           last_whitelisted_count, selected_sources)
    IN  /\ has_last_whitelisted_count' = TRUE
        /\ last_whitelisted_count' = r.count
        /\ last_call' = [op |-> "merge_entries",
                         selected_sources |-> selected_sources,
                         result |-> r.lines,
                         count_before |-> last_whitelisted_count]
        /\ UNCHANGED <<system_entries, remote_entries, whitelist>>
        /\ UNCHANGED <<app_vars, trip>>

\* mgr.preview_stats(selected_sources)
PreviewStats(selected_sources) ==
    /\ last_call' = [op |-> "preview_stats",
                     selected_sources |-> selected_sources,
                     result |-> preview_stats(system_entries, remote_entries,
                                              whitelist, selected_sources)]
    /\ UNCHANGED manager_vars
    /\ UNCHANGED <<app_vars, trip>>

NextMerge ==
    \/ \E sel \in Selections : MergeEntries(sel)
    \/ \E sel \in Selections : PreviewStats(sel)

SpecMerge == InitMerge /\ [][NextMerge]_vars


(***************************************************************************)
(* SpecApp: HostsFilterApp.  The handlers run one at a time on the UI      *)
(* thread; handle_fetch runs in a worker thread (ui.py:160, thread=True)   *)
(* and shares manager.remote_entries with them.  A step of a thread is one *)
(* access to the shared dictionary or to a file.  One fetch worker runs at *)
(* a time.                                                                 *)
(***************************************************************************)
\* handle_apply runs at most this many times
MaxApplies == 2
\* parse_content on the lines of a file: the entry lines become entries, in
\* order; blank lines and lines starting with "#" are skipped (model.py:74-94)
RECURSIVE parse_lines(_, _)
parse_lines(lines, source_name) ==
    IF lines = <<>> THEN <<>>
    ELSE (IF Head(lines).kind = "entry"
          THEN <<HostEntry(Head(lines).ip, Head(lines).domains,
                           Head(lines).comment, source_name)>>
          ELSE <<>>) \o parse_lines(Tail(lines), source_name)

\* ui.py:201-211: the checked labels, in the order of SOURCES
get_selected_sources(cbs) == SelectSeq(SOURCES, LAMBDA name : name \in cbs)

\* what fetch_source returns for a label (model.py:120-129): no entries (an
\* empty list, or a failed request), or one entry
FetchResults(name) == {<<>>, <<HostEntry("0.0.0.0", <<"a.com">>, None, name)>>}

\* the hosts file the application starts on
LocalhostFile == <<to_line(HostEntry("127.0.0.1", <<"localhost">>, None, "System"))>>

\* HostsFilterApp.__init__ (ui.py:101-106) and on_mount (ui.py:134-157)
InitApp ==
    /\ hosts_file = LocalhostFile
    /\ backups = <<>>
    /\ config_file = <<>>
    /\ system_entries = parse_lines(hosts_file, "System")
    /\ whitelist \in {{}, {"a.com"}}
    /\ remote_entries = <<>>
    /\ has_last_whitelisted_count = FALSE
    /\ last_whitelisted_count = 0
    /\ last_call = [op |-> "none"]
    /\ checked = Range(config_file)
    /\ ui = UiStart
    /\ worker = WorkerIdle
    /\ from_blocklist = {}
    /\ trip = <<>>

\* the handler returns: its locals die, its last log line stays
UiReturn(result) ==
    [ui EXCEPT !.pc = "idle", !.handler = "none", !.i = 0, !.acc = NoAcc,
               !.selected = <<>>, !.file_before = <<>>,
               !.new_content = <<>>, !.current_content = <<>>, !.result = result]

\* an exception leaves handle_apply outside its try block (ui.py:227): the
\* application ends
UiCrash == [UiReturn("crashed") EXCEPT !.pc = "crashed"]

\* ui.py:195-199 handle_checkbox_change, after the user toggles a checkbox
ToggleCheckbox(name) ==
    /\ ui.pc = "idle"
    /\ checked' = IF name \in checked THEN checked \ {name} ELSE checked \cup {name}
    /\ config_file' = get_selected_sources(checked')
    /\ UNCHANGED <<manager_vars, last_call, trip, from_blocklist, hosts_file, backups, ui, worker>>

(* ---- the fetch worker: handle_fetch -> fetch_all_sources ---- *)
\* ui.py:159-163: the button starts the worker thread
PressFetch ==
    /\ ui.pc = "idle"
    /\ worker.pc = "idle"
    /\ worker' = [pc |-> "reset", i |-> 0]
    /\ UNCHANGED <<manager_vars, last_call, trip, from_blocklist, hosts_file, backups, config_file,
                   checked, ui>>

\* model.py:133
WorkerReset ==
    /\ worker.pc = "reset"
    /\ remote_entries' = <<>>
    /\ worker' = [pc |-> "store", i |-> 1]
    /\ UNCHANGED <<system_entries, whitelist, has_last_whitelisted_count,
                   last_whitelisted_count, last_call, trip, app_vars_but_worker>>

\* model.py:134-136: one label fetched and stored; ui.py:167-172 after the last
WorkerStore ==
    /\ worker.pc = "store"
    /\ \E entries \in FetchResults(SOURCES[worker.i]) :
          remote_entries' = DictSet(remote_entries, SOURCES[worker.i], entries)
    /\ worker' = IF worker.i = Len(SOURCES) THEN WorkerIdle
                 ELSE [worker EXCEPT !.i = @ + 1]
    /\ UNCHANGED <<system_entries, whitelist, has_last_whitelisted_count,
                   last_whitelisted_count, last_call, trip, app_vars_but_worker>>

(* ---- merge_entries, step by step on the UI thread ---- *)
\* model.py:140-156
MergeBegin ==
    /\ ui.pc = "merge_begin"
    /\ ui' = [ui EXCEPT !.pc = "merge_test", !.i = 1,
                        !.acc = MergePrologue(system_entries, last_whitelisted_count)]
    /\ has_last_whitelisted_count' = TRUE
    /\ last_whitelisted_count' = ui'.acc.count
    /\ UNCHANGED <<system_entries, remote_entries, whitelist, last_call, trip, from_blocklist,
                   hosts_file, backups, config_file, checked, worker>>

\* model.py:158-160: the next label, and the test whether it is fetched
MergeTest ==
    /\ ui.pc = "merge_test"
    /\ ui.i <= Len(ui.selected)
    /\ ui' = IF DictHas(remote_entries, ui.selected[ui.i])
             THEN [ui EXCEPT !.pc = "merge_read"]
             ELSE [ui EXCEPT !.i = @ + 1]
    /\ UNCHANGED <<manager_vars, last_call, trip, from_blocklist, hosts_file, backups, config_file,
                   checked, worker>>

\* model.py:162-177: self.remote_entries[source] is read (a KeyError when the
\* dictionary was replaced since the test) and its entries are merged
MergeRead ==
    /\ ui.pc = "merge_read"
    /\ LET source == ui.selected[ui.i]
       IN  IF DictHas(remote_entries, source)
           THEN /\ ui' = [ui EXCEPT !.pc = "merge_test", !.i = @ + 1,
                              !.acc = MergeOneSource(source, remote_entries,
                                                     whitelist, ui.acc)]
                /\ last_whitelisted_count' = ui'.acc.count
           ELSE /\ ui' = IF ui.handler = "preview"
                         THEN UiReturn("preview_error")   \* ui.py:191-193
                         ELSE UiCrash
                /\ UNCHANGED last_whitelisted_count
    /\ UNCHANGED <<system_entries, remote_entries, whitelist,
                   has_last_whitelisted_count, last_call, trip, from_blocklist,
                   hosts_file, backups, config_file, checked, worker>>

\* model.py:179: the loop is over and the text is returned to the handler
MergeReturn ==
    /\ ui.pc = "merge_test"
    /\ ui.i > Len(ui.selected)
    /\ ui' = [ui EXCEPT !.pc = IF ui.handler = "preview" THEN "preview_diff"
                               ELSE "apply_backup",
                        !.new_content = ui.acc.lines]
    /\ UNCHANGED <<manager_vars, last_call, trip, from_blocklist, hosts_file, backups, config_file,
                   checked, worker>>

(* ---- handle_preview (ui.py:174-193) and generate_diff (model.py:211-228) ---- *)
\* ui.py:177-181, model.py:213-217
PressPreview ==
    /\ ui.pc = "idle"
    /\ LET selected == get_selected_sources(checked)
       IN  ui' = IF selected = <<>>
                 THEN UiReturn("no_selection")
                 ELSE [ui EXCEPT !.pc = "merge_begin", !.handler = "preview",
                                 !.selected = selected, !.result = "none",
                                 !.current_content = hosts_file]
    /\ UNCHANGED <<manager_vars, last_call, trip, from_blocklist, hosts_file, backups, config_file,
                   checked, worker>>

\* model.py:221-228, ui.py:185-190: the diff is empty exactly when the two
\* texts have the same lines
PreviewDiff ==
    /\ ui.pc = "preview_diff"
    /\ ui' = IF ui.current_content = ui.new_content
             THEN UiReturn("no_changes") ELSE UiReturn("diff_shown")
    /\ UNCHANGED <<manager_vars, last_call, trip, from_blocklist, hosts_file, backups, config_file,
                   checked, worker>>

(* ---- handle_apply (ui.py:213-248) ---- *)
\* ui.py:216-219
PressApply ==
    /\ ui.pc = "idle"
    /\ ui.applies < MaxApplies
    /\ ui' = [ui EXCEPT !.pc = "apply_check", !.handler = "apply",
                        !.selected = get_selected_sources(checked),
                        !.file_before = hosts_file, !.result = "none",
                        !.applies = @ + 1]
    /\ UNCHANGED <<manager_vars, last_call, trip, from_blocklist, hosts_file, backups, config_file,
                   checked, worker>>

\* ui.py:221-226: the missing-data check
ApplyCheck ==
    /\ ui.pc = "apply_check"
    /\ LET missing_data == SelectSeq(ui.selected,
                               LAMBDA s : ~DictHas(remote_entries, s))
       IN  ui' = IF missing_data # <<>> THEN UiReturn("missing_data")
                 ELSE [ui EXCEPT !.pc = "merge_begin"]
    /\ UNCHANGED <<manager_vars, last_call, trip, from_blocklist, hosts_file, backups, config_file,
                   checked, worker>>

\* ui.py:230-234: shutil.copy2 to the timestamped backup path; it may fail
ApplyBackup ==
    /\ ui.pc = "apply_backup"
    /\ \/ /\ backups' = Append(backups, hosts_file)
          /\ ui' = [ui EXCEPT !.pc = "apply_open"]
       \/ /\ ui' = UiReturn("backup_failed")              \* ui.py:243-247
          /\ UNCHANGED backups
    /\ UNCHANGED <<manager_vars, last_call, trip, from_blocklist, hosts_file, config_file, checked, worker>>

\* ui.py:236: open(path, "w") truncates the file, or fails and leaves it
ApplyOpen ==
    /\ ui.pc = "apply_open"
    /\ \/ /\ hosts_file' = <<>>
          /\ ui' = [ui EXCEPT !.pc = "apply_write"]
       \/ /\ ui' = UiReturn("open_failed")                \* ui.py:243-247
          /\ UNCHANGED hosts_file
    /\ UNCHANGED <<manager_vars, last_call, trip, from_blocklist, backups, config_file, checked, worker>>

\* model.py:146: the line that opens the generated block
BlocklistHeader == TextLine("### BLOCKLIST ENTRIES (GENERATED) ###")

\* the domains on the entry lines that follow the blocklist header in a text
\* merge_entries made (model.py:161-176)
BlockDomains(lines) ==
    UNION {Range(lines[i].domains) :
             i \in {j \in DOMAIN lines :
                      /\ lines[j].kind = "entry"
                      /\ \E h \in 1..(j - 1) : lines[h] = BlocklistHeader}}

\* ui.py:237-241: the text is written and the file closed, or the write fails
\* with some of the lines written
ApplyWrite ==
    /\ ui.pc = "apply_write"
    /\ \/ /\ hosts_file' = ui.new_content
          /\ ui' = UiReturn("applied")
       \/ /\ \E k \in 0..(Len(ui.new_content) - 1) :
                hosts_file' = SubSeq(ui.new_content, 1, k)
          /\ ui' = UiReturn("write_failed")               \* ui.py:246-247
    /\ from_blocklist' = from_blocklist \cup BlockDomains(hosts_file')
    /\ UNCHANGED <<manager_vars, last_call, trip, backups, config_file, checked, worker>>

\* the application is left and started again: HostsFilterApp.__init__
\* (ui.py:101-106) makes a new manager (model.py:37-43) and loads the hosts
\* file as it now is (model.py:98-104); on_mount ticks the boxes of config.json
\* (ui.py:149-156)
Restart ==
    /\ ui.pc = "idle"
    /\ system_entries' = parse_lines(hosts_file, "System")
    /\ remote_entries' = <<>>
    /\ has_last_whitelisted_count' = FALSE
    /\ last_whitelisted_count' = 0
    /\ checked' = Range(config_file)
    /\ ui' = [UiStart EXCEPT !.applies = ui.applies]
    /\ worker' = WorkerIdle
    /\ UNCHANGED <<whitelist, last_call, trip, hosts_file, backups, config_file,
                   from_blocklist>>

NextApp ==
    \/ \E name \in Labels : ToggleCheckbox(name)
    \/ PressFetch
    \/ WorkerReset
    \/ WorkerStore
    \/ PressPreview
    \/ PreviewDiff
    \/ PressApply
    \/ ApplyCheck
    \/ MergeBegin
    \/ MergeTest
    \/ MergeRead
    \/ MergeReturn
    \/ ApplyBackup
    \/ ApplyOpen
    \/ ApplyWrite
    \/ Restart

SpecApp == InitApp /\ [][NextApp]_vars

(***************************************************************************)
(* Reading a generated text.                                               *)
(***************************************************************************)

\* the positions of the generated block lines: the 0.0.0.0 lines after the
\* blocklist header
GeneratedPositions(lines) ==
    {i \in DOMAIN lines :
        /\ lines[i].kind = "entry"
        /\ lines[i].ip = "0.0.0.0"
        /\ \E h \in 1..(i - 1) : lines[h] = BlocklistHeader}

\* how often token d stands in the sequence ds
CountIn(d, ds) == Cardinality({j \in DOMAIN ds : ds[j] = d})

RECURSIVE SumOver(_, _, _)
\* the sum of CountIn(d, lines[i].domains) over the positions in ps
SumOver(d, lines, ps) ==
    IF ps = {} THEN 0
    ELSE LET i == CHOOSE x \in ps : TRUE
         IN  CountIn(d, lines[i].domains) + SumOver(d, lines, ps \ {i})

\* how often d stands on the generated block lines
GeneratedOccurrences(d, lines) == SumOver(d, lines, GeneratedPositions(lines))

\* the label of the "# Source:" header a line stands under ("" when none)
HeaderAbove(lines, i) ==
    LET hs == {h \in 1..(i - 1) : lines[h].kind = "source"}
    IN  IF hs = {} THEN ""
        ELSE lines[CHOOSE h \in hs : \A g \in hs : g <= h].label

\* d stands on a generated line under a "# Source: label" header
OccursUnder(d, label, lines) ==
    \E i \in GeneratedPositions(lines) :
        /\ HeaderAbove(lines, i) = label
        /\ CountIn(d, lines[i].domains) > 0

\* the domains that stand in a list of entries
DomainsOf(entries) ==
    {d \in Domains : \E i \in DOMAIN entries : CountIn(d, entries[i].domains) > 0}

RECURSIVE EntriesCount(_, _)
\* how often d stands in a list of entries
EntriesCount(d, entries) ==
    IF entries = <<>> THEN 0
    ELSE CountIn(d, Head(entries).domains) + EntriesCount(d, Tail(entries))

RECURSIVE SelectedCount(_, _, _)
\* how often d stands in the entries of the fetched sources of a selection,
\* a label selected twice counting twice
SelectedCount(d, selected_sources, remote) ==
    IF selected_sources = <<>> THEN 0
    ELSE (IF DictHas(remote, Head(selected_sources))
          THEN EntriesCount(d, DictGet(remote, Head(selected_sources)))
          ELSE 0) + SelectedCount(d, Tail(selected_sources), remote)

RECURSIVE SelectedCountOver(_, _, _)
\* the sum of SelectedCount(d, ...) over the domains d in ds
SelectedCountOver(ds, selected_sources, remote) ==
    IF ds = {} THEN 0
    ELSE LET d == CHOOSE x \in ds : TRUE
         IN  SelectedCount(d, selected_sources, remote)
             + SelectedCountOver(ds \ {d}, selected_sources, remote)

RECURSIVE TokensAt(_, _)
\* the number of domain tokens on the lines at the positions in ps
TokensAt(lines, ps) ==
    IF ps = {} THEN 0
    ELSE LET i == CHOOSE x \in ps : TRUE
         IN  Len(lines[i].domains) + TokensAt(lines, ps \ {i})

\* the number of domain tokens on the generated block lines
GeneratedTokens(lines) == TokensAt(lines, GeneratedPositions(lines))

Merged == last_call.op = "merge_entries"
Previewed == last_call.op = "preview_stats"

\* the first position of label in a selection (0 when it is not selected)
FirstPosition(label, selected_sources) ==
    IF \E i \in DOMAIN selected_sources : selected_sources[i] = label
    THEN CHOOSE i \in DOMAIN selected_sources :
            /\ selected_sources[i] = label
            /\ \A j \in 1..(i - 1) : selected_sources[j] # label
    ELSE 0

(***************************************************************************)
(* The claims checked under SpecMerge.                                     *)
(***************************************************************************)

\* C1: in the text merge_entries returns, each domain occurs at most once
\* among the generated block lines.
C1_DomainAtMostOnce ==
    Merged => \A d \in Domains : GeneratedOccurrences(d, last_call.result) <= 1

\* C2: preview_stats(...)['new_blocked_domains'] equals the number of domain
\* tokens on the generated block lines merge_entries emits for the same
\* manager state and the same selected_sources.
C2_PreviewEqualsMerge ==
    Previewed =>
        last_call.result.new_blocked_domains =
            GeneratedTokens(merge_entries(system_entries, remote_entries, whitelist,
                                          last_whitelisted_count,
                                          last_call.selected_sources).lines)

\* C5: a domain of any system entry never occurs on a generated block line.
C5_SystemDomainNeverGenerated ==
    Merged => \A d \in DomainsOf(system_entries) :
                  GeneratedOccurrences(d, last_call.result) = 0

\* C5 witness: merge_entries has run on a selection whose fetched source
\* lists a system domain.
C5_Witness ==
    /\ Merged
    /\ \E d \in DomainsOf(system_entries) :
          SelectedCount(d, last_call.selected_sources, remote_entries) > 0

\* C6: a whitelisted domain never occurs on a generated block line.
C6_WhitelistedNeverGenerated ==
    Merged => \A d \in whitelist : GeneratedOccurrences(d, last_call.result) = 0

\* C6 witness: merge_entries has run on a selection whose fetched source
\* lists a whitelisted domain that is no system domain.
C6_Witness ==
    /\ Merged
    /\ \E d \in whitelist \ DomainsOf(system_entries) :
          SelectedCount(d, last_call.selected_sources, remote_entries) > 0

C9_WhitelistedCountOfLastCall ==
    Merged =>
        /\ has_last_whitelisted_count
        /\ last_whitelisted_count =
              SelectedCountOver(whitelist \ DomainsOf(system_entries),
                                last_call.selected_sources, remote_entries)

\* C9 witness: an earlier call left a count behind, and the latest call has
\* counted the two occurrences of the one whitelisted domain.
C9_Witness ==
    /\ Merged
    /\ last_call.count_before > 0
    /\ Cardinality(whitelist) = 1
    /\ last_whitelisted_count = 2

(***************************************************************************)
(* The claims checked under SpecApp.                                       *)
(***************************************************************************)
ApplyFailures == {"backup_failed", "open_failed", "write_failed"}

\* C3: if a step of handle_apply from the backup copy through the final
\* write fails, the target hosts file is what it was before handle_apply
\* started.
C3_FailedApplyLeavesFileIntact ==
    [][(ui.handler = "apply" /\ ui'.result \in ApplyFailures)
          => hosts_file' = ui.file_before]_vars

\* C4: whenever merge_entries is invoked, every label of the selection it is
\* given is a key of remote_entries.
C4_MergeOnlyWhenFetched ==
    [][(ui.pc = "merge_begin" /\ ui'.pc = "merge_test")
          => \A s \in Range(ui.selected) : DictHas(remote_entries, s)]_vars

\* C10: whenever handle_apply writes the target file, the written text has
\* a "# Source: <label>" section for every selected label.
C10_WrittenFileHasEverySelectedSource ==
    [][(ui.pc = "apply_write" /\ ui'.result = "applied")
          => \A s \in Range(ui.selected) :
                \E i \in DOMAIN hosts_file' : hosts_file'[i] = SourceLine(s)]_vars

(***************************************************************************)
(* SpecParse: HostEntry.to_line and parse_content on characters.           *)
(* A string is the sequence of its characters; an Optional[str] is <<>>    *)
(* for None and <<s>> for the string s.                                    *)
(***************************************************************************)
\* an input entry holds at most this many characters in its address, its
\* domains and its comment together
MaxEntryChars == 5
\* an input text has at most this many characters
MaxTextLen == 5
\* a round trip stops after this many texts and entry lists
MaxTrip == 5

\* the width of the address column, f"{self.ip:<15}" (model.py:31)
PadWidth == 15

\* the characters of the model: a letter, a blank, the comment sign, a line break
Chars == {"a", " ", "#", "\n"}
Strings(lo, hi) == UNION {[1..k -> Chars] : k \in lo..hi}

NoComment == <<>>
Comment(s) == <<s>>

\* Python's str.isspace on the characters of the model
IsSpace(c) == c \in {" ", "\n"}

RECURSIVE lstrip(_)
lstrip(s) == IF s # <<>> /\ IsSpace(Head(s)) THEN lstrip(Tail(s)) ELSE s

RECURSIVE rstrip(_)
rstrip(s) ==
    IF s # <<>> /\ IsSpace(s[Len(s)]) THEN rstrip(SubSeq(s, 1, Len(s) - 1)) ELSE s

\* str.strip()
strip(s) == rstrip(lstrip(s))

\* str.find(c) + 1: the first place of c in s, 0 when c is not in s
Find(s, c) ==
    IF \E i \in DOMAIN s : s[i] = c
    THEN CHOOSE i \in DOMAIN s : s[i] = c /\ \A j \in 1..(i - 1) : s[j] # c
    ELSE 0

\* str.splitlines(): no line for the empty text, none after a final line break
RECURSIVE splitlines(_)
splitlines(s) ==
    IF s = <<>> THEN <<>>
    ELSE LET i == Find(s, "\n")
         IN  IF i = 0 THEN <<s>>
             ELSE <<SubSeq(s, 1, i - 1)>> \o splitlines(SubSeq(s, i + 1, Len(s)))

\* line.split("#", 1)
split_hash(s) ==
    LET i == Find(s, "#")
    IN  IF i = 0 THEN <<s>>
        ELSE <<SubSeq(s, 1, i - 1), SubSeq(s, i + 1, Len(s))>>

\* the end of the token that starts s: the place of the first blank, or past s
TokenEnd(s) ==
    IF \E i \in DOMAIN s : IsSpace(s[i])
    THEN CHOOSE i \in DOMAIN s : IsSpace(s[i]) /\ \A j \in 1..(i - 1) : ~IsSpace(s[j])
    ELSE Len(s) + 1

\* str.split(): the tokens between runs of whitespace
RECURSIVE split(_)
split(s) ==
    LET t == lstrip(s)
    IN  IF t = <<>> THEN <<>>
        ELSE <<SubSeq(t, 1, TokenEnd(t) - 1)>> \o split(SubSeq(t, TokenEnd(t), Len(t)))

\* mutant of CommentOf: the comment is taken as it stands after the "#"
CommentUnstripped(parts) == IF Len(parts) > 1 THEN Comment(parts[2]) ELSE NoComment

\* model.py:81: comment = parts[1].strip() if len(parts) > 1 else None
CommentOf(parts) == IF Len(parts) > 1 THEN Comment(strip(parts[2])) ELSE NoComment

\* model.py:75-94: one line of parse_content's loop; no entry or one
parse_line(raw, source_name) ==
    LET line == strip(raw)
    IN  IF line = <<>> \/ Head(line) = "#" THEN <<>>
        ELSE LET parts == split_hash(line)
                 clean_line == strip(parts[1])
                 tokens == split(clean_line)
             IN  IF clean_line = <<>> \/ Len(tokens) < 2 THEN <<>>
                 ELSE <<HostEntry(tokens[1], Tail(tokens), CommentOf(parts),
                                  source_name)>>

RECURSIVE ParseEach(_, _)
ParseEach(lines, source_name) ==
    IF lines = <<>> THEN <<>>
    ELSE parse_line(Head(lines), source_name) \o ParseEach(Tail(lines), source_name)

\* HostsManager.parse_content (model.py:71-96)
parse_content(content, source_name) == ParseEach(splitlines(content), source_name)

\* ' '.join(self.domains)
RECURSIVE join(_)
join(domains) ==
    IF domains = <<>> THEN <<>>
    ELSE IF Len(domains) = 1 THEN domains[1]
    ELSE domains[1] \o <<" ">> \o join(Tail(domains))

\* f"{s:<w}": s, filled with blanks on the right up to the width w
ljust(s, w) == s \o [i \in 1..(IF Len(s) < w THEN w - Len(s) ELSE 0) |-> " "]

\* `if self.comment:` (model.py:32): neither None nor the empty string
HasComment(e) == e.comment # NoComment /\ e.comment[1] # <<>>

\* HostEntry.to_line (model.py:27-34) on characters
to_line_text(e) ==
    IF ~e.enabled
    THEN <<"#", " ">> \o e.ip \o <<" ">> \o join(e.domains)
    ELSE LET line == ljust(e.ip, PadWidth) \o <<" ">> \o join(e.domains)
         IN  IF HasComment(e) THEN line \o <<" ", "#", " ">> \o e.comment[1]
             ELSE line

(* ---- the inputs of SpecParse ---- *)
\* the non-empty lists of non-empty strings that hold at most b characters
RECURSIVE DomainLists(_)
DomainLists(b) ==
    IF b < 1 THEN {}
    ELSE UNION {{<<d>>} \cup {<<d>> \o r : r \in DomainLists(b - Len(d))} :
                d \in Strings(1, b)}

Comments(b) == {NoComment} \cup {Comment(s) : s \in Strings(0, b)}

\* the characters in the domains ds
DomainChars(ds) == Len(join(ds)) - (Len(ds) - 1)

InputTexts == Strings(0, MaxTextLen)

TripEntries(entries) == [kind |-> "entries", entries |-> entries]
TripText(text) == [kind |-> "text", text |-> text]
Last(s) == s[Len(s)]

InitParse ==
    /\ system_entries = <<>>
    /\ remote_entries = <<>>
    /\ whitelist = {}
    /\ has_last_whitelisted_count = FALSE
    /\ last_whitelisted_count = 0
    /\ last_call = [op |-> "none"]
    /\ AppNotStarted
    \* a text, or an enabled system entry with an address and at least one domain
    /\ \/ \E t \in InputTexts : trip = <<TripText(t)>>
       \/ \E n \in 1..(MaxEntryChars - 1) :
          \E ds \in DomainLists(MaxEntryChars - n) :
          \E ip \in Strings(n, n) :
          \E c \in Comments(MaxEntryChars - n - DomainChars(ds)) :
             trip = <<TripEntries(<<HostEntry(ip, ds, c, "System")>>)>>

\* entry.to_line() of the one entry in hand
ToLine ==
    /\ trip # <<>>
    /\ Len(trip) < MaxTrip
    /\ Last(trip).kind = "entries"
    /\ Len(Last(trip).entries) = 1
    /\ trip' = Append(trip, TripText(to_line_text(Last(trip).entries[1])))
    /\ UNCHANGED <<manager_vars, last_call, app_vars>>

\* mgr.parse_content(text, "System") of the text in hand
ParseContent ==
    /\ trip # <<>>
    /\ Len(trip) < MaxTrip
    /\ Last(trip).kind = "text"
    /\ trip' = Append(trip, TripEntries(parse_content(Last(trip).text, "System")))
    /\ UNCHANGED <<manager_vars, last_call, app_vars>>

NextParse ==
    \/ ToLine
    \/ ParseContent

SpecParse == InitParse /\ [][NextParse]_vars

(***************************************************************************)
(* The claim checked under SpecParse.                                      *)
(***************************************************************************)
StartsFromEntry == trip # <<>> /\ trip[1].kind = "entries"
StartsFromText == trip # <<>> /\ trip[1].kind = "text"

IsToken(s) ==
    /\ s # <<>>
    /\ \A i \in DOMAIN s : ~IsSpace(s[i]) /\ s[i] # "#"

\* no comment, or one that is not empty, has no whitespace at either end and
\* no line break
IsPlainComment(c) ==
    \/ c = NoComment
    \/ /\ c[1] # <<>>
       /\ strip(c[1]) = c[1]
       /\ Find(c[1], "\n") = 0

WellFormed(e) ==
    /\ IsToken(e.ip)
    /\ \A i \in DOMAIN e.domains : IsToken(e.domains[i])
    /\ IsPlainComment(e.comment)

EmptyCommentAsNone(e) ==
    [e EXCEPT !.comment = IF @ = Comment(<<>>) THEN NoComment ELSE @]

FileDomains(lines) ==
    UNION {Range(lines[i].domains) :
             i \in {j \in DOMAIN lines : lines[j].kind = "entry"}}

\* C11: after any sequence of sessions, a handle_apply with an empty
\* selection writes a file that holds no domain which entered the file from
\* a blocklist source in an earlier apply.
C11_EmptySelectionRevertsToSystem ==
    [][(ui.pc = "apply_write" /\ ui.selected = <<>> /\ ui'.result = "applied")
          => FileDomains(hosts_file') \cap from_blocklist = {}]_vars
=============================================================================
